---- MODULE Spec2Model ----
(***************************************************************************)
(* Model of packages/typefusion/src/db/postgres/types.ts:                  *)
(*   - class PgType (a column type with a mutable nullability flag),       *)
(*   - the pgType factories,                                               *)
(*   - valueToPostgresType (runtime value -> postgres type inference),     *)
(*   - postgresIdColumn (DDL of the identity column).                      *)
(*                                                                         *)
(* Strings the code builds with template literals are sequences of         *)
(* lexemes (words, single blanks, punctuation), so that concatenation is   *)
(* \o and prefixes/suffixes can be inspected.  JavaScript numbers are      *)
(* wider than the integers of the model checker, so a finite number is     *)
(* hi * 65536 + lo + frac / 100 with lo \in 0..65535 and frac \in 0..99.   *)
(***************************************************************************)
EXTENDS Integers, Sequences, FiniteSets, TLC

VARIABLES
    heap,   \* the PgType objects allocated so far; an object's identity is its index
    made,   \* per object: the constructor argument and the last nullability call made on it
    ret,    \* the last call on the PgType API / postgresIdColumn: [op, self, value]
    rows    \* the last calls of valueToPostgresType: [field, value, outcome]

vars == <<heap, made, ret, rows>>

\* Bounds of the model.
MaxObjs == 2
MaxRows == 2

(***************************************************************************)
(* JavaScript values                                                       *)
(***************************************************************************)
NoNum == [cls |-> "none", hi |-> 0, lo |-> 0, frac |-> 0]

Finite(hi, lo, frac) == [cls |-> "finite", hi |-> hi, lo |-> lo, frac |-> frac]

\* kind: the ResultSet kind of the value; typeof: what `typeof value` gives;
\* isNull: value === null; instanceofDate: value instanceof Date.
JSValue(kind, type, isNull, isDate, num, repr) ==
    [kind |-> kind, typeof |-> type, isNull |-> isNull,
     instanceofDate |-> isDate, num |-> num, repr |-> repr]

JSNumber(kind, num, repr) == JSValue(kind, "number", FALSE, FALSE, num, repr)

Numbers ==
    { JSNumber("integer", Finite(0, 0, 0), "0"),
      JSNumber("integer", Finite(-1, 65535, 0), "-1"),
      JSNumber("integer", Finite(32767, 65534, 0), "2147483646"),
      JSNumber("integer", Finite(32767, 65535, 0), "2147483647"),
      JSNumber("integer", Finite(32768, 0, 0), "2147483648"),
      JSNumber("integer", Finite(-32768, 1, 0), "-2147483647"),
      JSNumber("integer", Finite(-32768, 0, 0), "-2147483648"),
      JSNumber("integer", Finite(-32769, 65535, 0), "-2147483649"),
      JSNumber("integer", Finite(76293, 61952, 0), "5000000000"),
      JSNumber("integer", Finite(-76294, 3584, 0), "-5000000000"),
      JSNumber("floating-point", Finite(0, 3, 14), "3.14"),
      JSNumber("floating-point", Finite(-1, 65532, 86), "-3.14"),
      JSNumber("floating-point", Finite(32767, 65535, 50), "2147483647.5"),
      JSNumber("floating-point", [NoNum EXCEPT !.cls = "NaN"], "NaN"),
      JSNumber("floating-point", [NoNum EXCEPT !.cls = "-Infinity"], "-Infinity") }

NonNumbers ==
    { JSValue("null", "object", TRUE, FALSE, NoNum, "null"),
      JSValue("null", "undefined", FALSE, FALSE, NoNum, "undefined"),
      JSValue("date/time", "object", FALSE, TRUE, NoNum, "new Date(0)"),
      JSValue("structured", "object", FALSE, FALSE, NoNum, "{}"),
      JSValue("structured", "object", FALSE, FALSE, NoNum, "[1, 2]"),
      JSValue("binary", "object", FALSE, FALSE, NoNum, "new Uint8Array(2)"),
      JSValue("text", "string", FALSE, FALSE, NoNum, "'a'"),
      JSValue("integer", "bigint", FALSE, FALSE, NoNum, "5n"),
      JSValue("boolean", "boolean", FALSE, FALSE, NoNum, "true"),
      JSValue("boolean", "boolean", FALSE, FALSE, NoNum, "false"),
      JSValue("function", "function", FALSE, FALSE, NoNum, "() => 1"),
      JSValue("symbol", "symbol", FALSE, FALSE, NoNum, "Symbol('s')") }

Values == Numbers \cup NonNumbers

\* The names of the record fields whose values are inferred.
Fields == {"id", "name"}

(***************************************************************************)
(* valueToPostgresType                                                     *)
(***************************************************************************)
\* Number.isInteger(value)
NumberIsInteger(value) ==
    /\ value.typeof = "number"
    /\ value.num.cls = "finite"
    /\ value.num.frac = 0

\* a >= b on finite numbers
NumGE(a, b) ==
    \/ a.hi > b.hi
    \/ a.hi = b.hi /\ a.lo > b.lo
    \/ a.hi = b.hi /\ a.lo = b.lo /\ a.frac >= b.frac

\* a <= b on finite numbers
NumLE(a, b) == NumGE(b, a)

MIN_INTEGER == Finite(-32768, 0, 0)        \* -2147483648

MAX_INTEGER_OneLess == Finite(32767, 65534, 0)

MAX_INTEGER == Finite(32767, 65535, 0)     \*  2147483647

Succeed(type) == [_tag |-> "Success", value |-> type]

UnsupportedError_KindDropped(cause, message) ==
    [_tag |-> "UnsupportedJSTypePostgresConversionError",
     cause |-> cause, message |-> SubSeq(message, 1, 1)]

UnsupportedJSTypePostgresConversionError(cause, message) ==
    [_tag |-> "UnsupportedJSTypePostgresConversionError",
     cause |-> cause, message |-> message]

Fail(error) == [_tag |-> "Failure", error |-> error]

\* The `default` branch of the switch: Effect.fail(new Unsupported...Error({...})).
unsupported(value) ==
    Fail(UnsupportedJSTypePostgresConversionError("null",
        <<"Unsupported type for value provided in script result: ", value.typeof>>))

\* case "number"
numberCase(value) ==
    IF NumberIsInteger(value)
    THEN IF NumGE(value.num, MIN_INTEGER) /\ NumLE(value.num, MAX_INTEGER)
         THEN Succeed("INTEGER")
         ELSE Succeed("BIGINT")
    ELSE Succeed("DOUBLE PRECISION")

switchTypeof_NoObjectCase(value) ==
    CASE value.typeof = "string" -> Succeed("TEXT")
      [] value.typeof = "bigint" -> Succeed("BIGINT")
      [] value.typeof = "number" -> numberCase(value)
      [] value.typeof = "boolean" -> Succeed("BOOLEAN")
      [] OTHER -> unsupported(value)

\* switch (typeof value) { ... }
switchTypeof(value) ==
    CASE value.typeof = "object" -> Succeed("JSONB")
      [] value.typeof = "string" -> Succeed("TEXT")
      [] value.typeof = "bigint" -> Succeed("BIGINT")
      [] value.typeof = "number" -> numberCase(value)
      [] value.typeof = "boolean" -> Succeed("BOOLEAN")
      [] OTHER -> unsupported(value)

valueToPostgresType_NoDateCheck(value) ==
    IF value.isNull \/ value.typeof = "undefined" THEN Succeed("TEXT")
    ELSE switchTypeof(value)

valueToPostgresType_NoNullCheck(value) ==
    IF value.instanceofDate THEN Succeed("TIMESTAMP WITH TIME ZONE")
    ELSE switchTypeof(value)

valueToPostgresType(value) ==
    IF value.isNull \/ value.typeof = "undefined" THEN Succeed("TEXT")
    ELSE IF value.instanceofDate THEN Succeed("TIMESTAMP WITH TIME ZONE")
    ELSE switchTypeof(value)

(***************************************************************************)
(* class PgType                                                            *)
(***************************************************************************)
\* The object allocated by `new PgType(postgresType)`: [heap: the heap after, ref: the object].
PgType(h, postgresType) ==
    [heap |-> Append(h, [_type |-> "PgType", _nullable |-> TRUE,
                         _postgresType |-> postgresType]),
     ref |-> Len(h) + 1]

notNull_SetsNullable(h, self) ==
    [heap |-> [h EXCEPT ![self]._nullable = TRUE], ref |-> self]

notNull(h, self) ==
    [heap |-> [h EXCEPT ![self]._nullable = FALSE], ref |-> self]

nullable_KeepsFlag(h, self) == [heap |-> h, ref |-> self]

nullable(h, self) ==
    [heap |-> [h EXCEPT ![self]._nullable = TRUE], ref |-> self]

getNullable(h, self) == h[self]._nullable

getPostgresType(h, self) == h[self]._postgresType

getType(h, self) == h[self]._type

toString_AlwaysNotNull(h, self) ==
    h[self]._postgresType \o <<" ", "NOT", " ", "NULL">>

toString(h, self) ==
    h[self]._postgresType \o
        (IF h[self]._nullable THEN <<" ">> ELSE <<" ", "NOT", " ", "NULL">>)

(***************************************************************************)
(* pgType: the factories                                                   *)
(***************************************************************************)
\* The postgres type string each factory without a parameter passes to the constructor.
pgTypeNames ==
    [text |-> <<"text">>, integer |-> <<"integer">>, boolean |-> <<"boolean">>,
     date |-> <<"date">>, dateTime |-> <<"timestamp">>, bigint |-> <<"bigint">>,
     smallint |-> <<"smallint">>, real |-> <<"real">>,
     doublePrecision |-> <<"double", " ", "precision">>,
     smallserial |-> <<"smallserial">>, serial |-> <<"serial">>,
     bigserial |-> <<"bigserial">>, numeric |-> <<"numeric">>,
     decimal |-> <<"decimal">>, money |-> <<"money">>, time |-> <<"time">>,
     interval |-> <<"interval">>, point |-> <<"point">>, line |-> <<"line">>,
     lseg |-> <<"lseg">>, box |-> <<"box">>, polygon |-> <<"polygon">>,
     circle |-> <<"circle">>, inet |-> <<"inet">>, cidr |-> <<"cidr">>,
     macaddr |-> <<"macaddr">>, tsvector |-> <<"tsvector">>,
     tsquery |-> <<"tsquery">>, uuid |-> <<"uuid">>, json |-> <<"json">>,
     jsonb |-> <<"jsonb">>, xml |-> <<"xml">>, bytea |-> <<"bytea">>]

\* A factory that hands out one shared descriptor per type instead of a new one.
pgType_Shared(h, name) ==
    IF \E o \in 1..Len(h) : h[o]._postgresType = pgTypeNames[name]
    THEN [heap |-> h,
          ref |-> CHOOSE o \in 1..Len(h) : h[o]._postgresType = pgTypeNames[name]]
    ELSE PgType(h, pgTypeNames[name])

\* pgType.<name>()
pgType(h, name) == PgType(h, pgTypeNames[name])

\* pgType.char(n)
pgTypeChar(h, n) == PgType(h, <<"char", "(", ToString(n), ")">>)

\* pgType.varchar(n)
pgTypeVarchar(h, n) == PgType(h, <<"varchar", "(", ToString(n), ")">>)

(***************************************************************************)
(* postgresIdColumn                                                        *)
(***************************************************************************)
\* `undefined`, for an omitted argument or the result of `?.` on it.
undefined == [defined |-> FALSE, str |-> <<>>]

Defined(str) == [defined |-> TRUE, str |-> str]

\* a || b on an optional string a: b when a is undefined or the empty string.
OrElse(a, b) == IF a.defined /\ a.str # <<>> THEN a.str ELSE b

\* type = 0 stands for the omitted argument.
postgresIdColumn(h, type) ==
    LET idType == OrElse(IF type = 0 THEN undefined ELSE Defined(getPostgresType(h, type)),
                         <<"BIGINT", " ", "GENERATED", " ", "ALWAYS", " ", "AS", " ",
                           "IDENTITY">>)
    IN  <<"id", " ">> \o idType \o <<" ", "PRIMARY", " ", "KEY">>

(***************************************************************************)
(* The calls a script can make                                             *)
(***************************************************************************)
\* The factories and constructor arguments the model exercises.
Factories == {"text", "doublePrecision"}

CharLengths == {3}

CustomTypes == { <<>>, <<"myCustomType">>, <<"integer", " ", "NOT", " ", "NULL">> }

Refs == 1..Len(heap)

Made(arg) == [arg |-> arg, last |-> "none"]

Allocated(op, new) ==
    /\ heap' = new.heap
    /\ made' = IF Len(new.heap) > Len(heap)
               THEN Append(made, Made(new.heap[new.ref]._postgresType))
               ELSE made
    /\ ret' = [op |-> op, self |-> 0, value |-> new.ref]
    /\ UNCHANGED rows

\* new PgType(postgresType)
New(postgresType) ==
    /\ Len(heap) < MaxObjs
    /\ Allocated("new", PgType(heap, postgresType))

\* pgType.<name>()
CallFactory(name) ==
    /\ Len(heap) < MaxObjs
    /\ Allocated("factory", pgType(heap, name))

\* pgType.char(n)
CallChar(n) ==
    /\ Len(heap) < MaxObjs
    /\ Allocated("factory", pgTypeChar(heap, n))

\* pgType.varchar(n)
CallVarchar(n) ==
    /\ Len(heap) < MaxObjs
    /\ Allocated("factory", pgTypeVarchar(heap, n))

\* self.notNull()
CallNotNull(self) ==
    LET r == notNull(heap, self) IN
    /\ heap' = r.heap
    /\ made' = [made EXCEPT ![self].last = "notNull"]
    /\ ret' = [op |-> "notNull", self |-> self, value |-> r.ref]
    /\ UNCHANGED rows

\* self.nullable()
CallNullable(self) ==
    LET r == nullable(heap, self) IN
    /\ heap' = r.heap
    /\ made' = [made EXCEPT ![self].last = "nullable"]
    /\ ret' = [op |-> "nullable", self |-> self, value |-> r.ref]
    /\ UNCHANGED rows

\* self.getNullable()
CallGetNullable(self) ==
    /\ ret' = [op |-> "getNullable", self |-> self, value |-> getNullable(heap, self)]
    /\ UNCHANGED <<heap, made, rows>>

\* self.getPostgresType()
CallGetPostgresType(self) ==
    /\ ret' = [op |-> "getPostgresType", self |-> self,
               value |-> getPostgresType(heap, self)]
    /\ UNCHANGED <<heap, made, rows>>

\* self.getType()
CallGetType(self) ==
    /\ ret' = [op |-> "getType", self |-> self, value |-> getType(heap, self)]
    /\ UNCHANGED <<heap, made, rows>>

\* self.toString()
CallToString(self) ==
    /\ ret' = [op |-> "toString", self |-> self, value |-> toString(heap, self)]
    /\ UNCHANGED <<heap, made, rows>>

\* postgresIdColumn(type), postgresIdColumn() when type = 0
CallPostgresIdColumn(type) ==
    /\ ret' = [op |-> "postgresIdColumn", self |-> type,
               value |-> postgresIdColumn(heap, type)]
    /\ UNCHANGED <<heap, made, rows>>

\* The last n elements of s.
LastN(s, n) == IF Len(s) <= n THEN s ELSE SubSeq(s, Len(s) - n + 1, Len(s))

\* One call valueToPostgresType(value), made for the field `field` of a record.
InferValue(field, value) ==
    /\ rows' = LastN(Append(rows, [field |-> field, value |-> value,
                                   outcome |-> valueToPostgresType(value)]), MaxRows)
    /\ UNCHANGED <<heap, made, ret>>

Init ==
    /\ heap = <<>>
    /\ made = <<>>
    /\ ret = [op |-> "none", self |-> 0, value |-> 0]
    /\ rows = <<>>

NextInfer == \E field \in Fields, value \in Values : InferValue(field, value)

NextPgType ==
    \/ \E postgresType \in CustomTypes : New(postgresType)
    \/ \E name \in Factories : CallFactory(name)
    \/ \E n \in CharLengths : CallChar(n)
    \/ \E n \in CharLengths : CallVarchar(n)
    \/ \E self \in Refs : CallNotNull(self)
    \/ \E self \in Refs : CallNullable(self)
    \/ \E self \in Refs : CallGetNullable(self)
    \/ \E self \in Refs : CallGetPostgresType(self)
    \/ \E self \in Refs : CallGetType(self)
    \/ \E self \in Refs : CallToString(self)
    \/ \E type \in {0} \cup Refs : CallPostgresIdColumn(type)

Next == NextInfer \/ NextPgType

\* The calls of valueToPostgresType alone.
SpecInfer == Init /\ [][NextInfer]_vars

\* The calls on PgType, pgType and postgresIdColumn alone.
SpecPgType == Init /\ [][NextPgType]_vars

Spec == Init /\ [][Next]_vars

(***************************************************************************)
(* Helpers of the properties                                               *)
(***************************************************************************)
IsPrefix(p, s) == Len(p) <= Len(s) /\ SubSeq(s, 1, Len(p)) = p

EndsWith(s, p) == Len(p) <= Len(s) /\ SubSeq(s, Len(s) - Len(p) + 1, Len(s)) = p

Contains(s, p) == \E i \in 1..(Len(s) - Len(p) + 1) : SubSeq(s, i, i + Len(p) - 1) = p

Calls == { rows[i] : i \in 1..Len(rows) }

\* v is an integer within -2147483648 .. 2147483647: its high limb is a signed 16-bit number.
FitsInt32(v) == v.kind = "integer" /\ v.num.hi >= -32768 /\ v.num.hi <= 32767

(***************************************************************************)
(* Properties of valueToPostgresType (checked under SpecInfer)             *)
(***************************************************************************)
\* C1: every value of the number kind is classified as exactly one of INTEGER, BIGINT,
\* DOUBLE PRECISION: an integral number within -2147483648..2147483647 (bounds included)
\* is INTEGER, an integral number outside it (2147483648, -2147483649, 5000000000) is
\* BIGINT, a number that is not integral (3.14) is DOUBLE PRECISION.
C1_NumberClassification ==
    \A c \in Calls :
        c.value.typeof = "number" =>
            /\ c.outcome._tag = "Success"
            /\ c.outcome.value =
                 (IF c.value.kind = "integer"
                  THEN IF FitsInt32(c.value) THEN "INTEGER" ELSE "BIGINT"
                  ELSE "DOUBLE PRECISION")
            /\ c.value.repr \in {"2147483647", "-2147483648"} => c.outcome.value = "INTEGER"
            /\ c.value.repr \in {"2147483648", "-2147483649", "5000000000"}
                   => c.outcome.value = "BIGINT"
            /\ c.value.repr = "3.14" => c.outcome.value = "DOUBLE PRECISION"

C1_Witness ==
    /\ Len(rows) = 2
    /\ rows[1].value.repr = "2147483647" /\ rows[1].outcome = Succeed("INTEGER")
    /\ rows[2].value.repr = "2147483648" /\ rows[2].outcome = Succeed("BIGINT")

\* C2: a date/time value gives TIMESTAMP WITH TIME ZONE (never JSONB, although it is an
\* object at runtime), a structured value gives JSONB, a textual value gives TEXT, a
\* boolean value gives BOOLEAN.
C2_NonNumericKinds ==
    \A c \in Calls :
        /\ c.value.kind = "date/time" => c.outcome = Succeed("TIMESTAMP WITH TIME ZONE")
        /\ c.value.kind = "structured" => c.outcome = Succeed("JSONB")
        /\ c.value.kind = "text" => c.outcome = Succeed("TEXT")
        /\ c.value.kind = "boolean" => c.outcome = Succeed("BOOLEAN")

C2_Witness ==
    \E c \in Calls :
        /\ c.value.kind = "date/time" /\ c.value.typeof = "object"
        /\ c.outcome = Succeed("TIMESTAMP WITH TIME ZONE")

\* C3: null and undefined succeed with TEXT, the type of a textual value; a field that
\* holds a text in one row and null in another gets TEXT for both rows, in either order.
C3_NullIsText ==
    /\ \A c \in Calls : c.value.kind = "null" => c.outcome = Succeed("TEXT")
    /\ \A c, d \in Calls :
           (c.field = d.field /\ c.value.kind = "text" /\ d.value.kind = "null")
               => (c.outcome = d.outcome /\ d.outcome = Succeed("TEXT"))

C3_Witness ==
    /\ Len(rows) = 2
    /\ rows[1].field = "name" /\ rows[1].value.repr = "'a'"
    /\ rows[2].field = "name" /\ rows[2].value.repr = "null"
    /\ rows[2].outcome = Succeed("TEXT")

Unsupported(c) ==
    /\ ~c.value.isNull
    /\ ~c.value.instanceofDate
    /\ c.value.typeof \notin {"undefined", "object", "string", "bigint", "number", "boolean"}

\* C4 as stated: a value of another runtime kind (a function, a symbol) fails with the
\* unsupported-value-type error, and the error names both the field and the kind.
C4_ErrorNamesFieldAndKind ==
    \A c \in Calls :
        Unsupported(c) =>
            /\ c.outcome._tag = "Failure"
            /\ c.outcome.error._tag = "UnsupportedJSTypePostgresConversionError"
            /\ \E i \in 1..Len(c.outcome.error.message) :
                   c.outcome.error.message[i] = c.value.typeof
            /\ \E i \in 1..Len(c.outcome.error.message) :
                   c.outcome.error.message[i] = c.field

\* C4 amended: such a value fails with the unsupported-value-type error, whose message
\* names the runtime kind (typeof) and nothing else: the field is not in it.
C4_ErrorNamesKind ==
    \A c \in Calls :
        Unsupported(c) =>
            /\ c.outcome._tag = "Failure"
            /\ c.outcome.error._tag = "UnsupportedJSTypePostgresConversionError"
            /\ c.outcome.error.message =
                   <<"Unsupported type for value provided in script result: ",
                     c.value.typeof>>
            /\ \A i \in 1..Len(c.outcome.error.message) :
                   c.outcome.error.message[i] # c.field

C4_Witness ==
    \E c, d \in Calls :
        /\ c.value.typeof = "function" /\ c.outcome._tag = "Failure"
        /\ d.value.typeof = "symbol" /\ d.outcome._tag = "Failure"

ClosedKinds ==
    {"null", "text", "integer", "floating-point", "boolean", "date/time", "binary",
     "structured"}

PostgresTypes ==
    {"TEXT", "TIMESTAMP WITH TIME ZONE", "JSONB", "BIGINT", "INTEGER", "DOUBLE PRECISION",
     "BOOLEAN"}

\* C10: inference is total on the closed set of ResultSet kinds: a value of one of them
\* succeeds with one type of the seven; the failure is reached only outside the set;
\* the same value always has the same outcome.
C10_TotalOnClosedKinds ==
    /\ \A c \in Calls :
           /\ c.value.kind \in ClosedKinds
                  => (c.outcome._tag = "Success" /\ c.outcome.value \in PostgresTypes)
           /\ c.outcome._tag = "Failure" => c.value.kind \notin ClosedKinds
    /\ \A c, d \in Calls : c.value = d.value => c.outcome = d.outcome

C10_Witness ==
    \E c, d \in Calls :
        /\ c.value.kind = "binary" /\ c.outcome._tag = "Success"
        /\ d.value.kind = "function" /\ d.outcome._tag = "Failure"

(***************************************************************************)
(* Properties of PgType, pgType and postgresIdColumn (checked under        *)
(* SpecPgType)                                                             *)
(***************************************************************************)
NOT_NULL == <<"NOT", " ", "NULL">>

GENERATED_IDENTITY == <<"GENERATED", " ", "ALWAYS", " ", "AS", " ", "IDENTITY">>

\* C5: toString() of every descriptor begins with exactly the postgres type string given
\* at construction, and ends with NOT NULL if and only if getNullable() is false then.
C5_ToStringRendersTypeAndNullability ==
    /\ \A o \in Refs :
           /\ IsPrefix(made[o].arg, toString(heap, o))
           /\ SubSeq(toString(heap, o), Len(made[o].arg) + 1, Len(toString(heap, o)))
                  \in { <<" ">>, <<" ">> \o NOT_NULL }
           /\ EndsWith(toString(heap, o), NOT_NULL) <=> ~getNullable(heap, o)
    /\ ret.op = "toString" =>
           /\ IsPrefix(made[ret.self].arg, ret.value)
           /\ EndsWith(ret.value, NOT_NULL) <=> ~getNullable(heap, ret.self)

C5_Witness ==
    /\ ret.op = "toString"
    /\ ~getNullable(heap, ret.self)
    /\ ret.value = <<"double", " ", "precision", " ", "NOT", " ", "NULL">>

\* C6 as stated: postgresIdColumn() gives "id BIGINT GENERATED ALWAYS AS IDENTITY
\* PRIMARY KEY"; postgresIdColumn(type) gives "id <type's postgres type> PRIMARY KEY"
\* and adds no generated-identity clause; the column is always id, the PRIMARY KEY.
C6_IdColumnSynthesizedOnlyWhenAbsent ==
    ret.op = "postgresIdColumn" =>
        /\ IsPrefix(<<"id", " ">>, ret.value)
        /\ EndsWith(ret.value, <<" ", "PRIMARY", " ", "KEY">>)
        /\ ret.self = 0 =>
               ret.value = <<"id", " ", "BIGINT", " ">> \o GENERATED_IDENTITY
                               \o <<" ", "PRIMARY", " ", "KEY">>
        /\ ret.self # 0 =>
               /\ ret.value = <<"id", " ">> \o getPostgresType(heap, ret.self)
                                  \o <<" ", "PRIMARY", " ", "KEY">>
               /\ ~Contains(ret.value, GENERATED_IDENTITY)

Getters == {"getNullable", "getPostgresType", "getType", "toString", "postgresIdColumn"}

\* C7 as stated: once constructed, no operation changes a descriptor.
C7_NoPostConstructionMutation ==
    [][\A o \in Refs : heap'[o] = heap[o]]_vars

\* C7 amended: no operation changes a descriptor's postgres type, and the four getters
\* change nothing; notNull() and nullable() do change the nullability of the descriptor
\* they are called on, to false and to true.
C7_OnlyNullabilityIsMutable ==
    [][\A o \in Refs :
          /\ heap'[o]._postgresType = heap[o]._postgresType
          /\ heap'[o]._type = heap[o]._type
          /\ ret'.op \in Getters => heap'[o] = heap[o]
          /\ (ret'.op = "notNull" /\ ret'.self = o) => ~heap'[o]._nullable
          /\ (ret'.op = "nullable" /\ ret'.self = o) => heap'[o]._nullable]_vars

C7_Witness ==
    /\ ret.op = "getNullable"
    /\ ret.value = FALSE
    /\ made[ret.self].last = "notNull"

\* C8: nullability is last-call-wins: a descriptor is not nullable if and only if the
\* last of its notNull()/nullable() calls was notNull() (a fresh one is nullable); each
\* call returns the descriptor it was called on, keeps the postgres type given at
\* construction, and changes nothing when repeated.
C8_LastCallWins ==
    /\ [](\A o \in Refs :
             /\ getNullable(heap, o) = (made[o].last # "notNull")
             /\ getPostgresType(heap, o) = made[o].arg)
    /\ [](ret.op \in {"notNull", "nullable"} => ret.value = ret.self)
    /\ [][(ret'.op \in {"notNull", "nullable"} /\ ret'.self \in Refs
             /\ made[ret'.self].last = ret'.op) => heap' = heap]_vars

C8_Witness ==
    \E a, b \in Refs :
        /\ made[a].last = "nullable" /\ getNullable(heap, a)
        /\ made[b].last = "notNull" /\ ~getNullable(heap, b)

\* C9: every factory call returns a new descriptor that starts nullable and leaves the
\* existing ones as they are; notNull()/nullable() on one descriptor changes
\* getNullable() and toString() of no other descriptor.
C9_DescriptorsAreIndependent ==
    [][/\ ret'.op = "factory" =>
              /\ ret'.value = Len(heap) + 1
              /\ Len(heap') = Len(heap) + 1
              /\ getNullable(heap', ret'.value)
              /\ \A o \in Refs : heap'[o] = heap[o]
       /\ ret'.op \in {"notNull", "nullable"} =>
              \A o \in Refs \ {ret'.self} :
                  /\ getNullable(heap', o) = getNullable(heap, o)
                  /\ toString(heap', o) = toString(heap, o)]_vars

C9_Witness ==
    \E a, b \in Refs :
        /\ a # b
        /\ getPostgresType(heap, a) = <<"text">>
        /\ getPostgresType(heap, b) = <<"text">>
        /\ getNullable(heap, a) /\ ~getNullable(heap, b)
====
